---- MODULE Spec2Model ----
(***************************************************************************)
(* WP-Media-Categorizer: the Matcher (preprocess_media.py) and the Applier *)
(* (apply_terms_direct.py, class MediaCategorizer) as state machines.      *)
(*                                                                         *)
(* Strings are sequences of one-character strings, so that str.lower,      *)
(* str.strip, str.split, str.replace, str.startswith and the "in" test are *)
(* computed character by character as Python computes them.                *)
(***************************************************************************)
EXTENDS Integers, Sequences, FiniteSets, TLC

VARIABLES
    pc,                 \* position of the running program
    config,             \* settings read from config.yml and the command line flags
    matches,            \* the intermediate artifact tmp/matches.json
    self,               \* the MediaCategorizer object: caches and tracking lists
    db,                 \* the store as the open connection sees it (uncommitted writes included)
    durable,            \* the committed store
    before,             \* the committed store when the current run started
    run_no,             \* 1 for the first invocation, 2 for a re-run on the same artifact
    exit_code,          \* process exit status, -1 while running
    log,                \* what the run has issued so far: writes, commits, export, faults
    todo,               \* loop positions of process_matches
    filtered_terms,     \* result of the last filter_terms_by_mode call
    attachments,        \* Matcher input: the wp-cli attachment list
    mappings            \* Matcher input: config["mappings"]

vars == <<pc, config, matches, self, db, durable, before, run_no, exit_code, log,
          todo, filtered_terms, attachments, mappings>>

-----------------------------------------------------------------------------
(* Python string primitives *)

Min(S) == CHOOSE x \in S : \A y \in S : x <= y
Max(S) == CHOOSE x \in S : \A y \in S : x >= y

\* str.lower(), on the characters the model uses
LowerChar(c) ==
    CASE c = "W" -> "w"
      [] c = "P" -> "p"
      [] c = "I" -> "i"
      [] OTHER -> c

RECURSIVE lower(_)
lower(s) == IF s = <<>> THEN <<>> ELSE <<LowerChar(Head(s))>> \o lower(Tail(s))

RECURSIVE lstrip(_)
lstrip(s) == IF s # <<>> /\ Head(s) = " " THEN lstrip(Tail(s)) ELSE s

RECURSIVE rstrip(_)
rstrip(s) == IF s # <<>> /\ s[Len(s)] = " " THEN rstrip(SubSeq(s, 1, Len(s) - 1)) ELSE s

\* str.strip()
strip(s) == rstrip(lstrip(s))

\* str.startswith(p)
startswith(s, p) == Len(p) <= Len(s) /\ SubSeq(s, 1, Len(p)) = p

\* the positions at which sep occurs in s
Occurrences(s, sep) ==
    {i \in 1..(Len(s) - Len(sep) + 1) : SubSeq(s, i, i + Len(sep) - 1) = sep}

\* "sub in s"
contains(s, sub) == sub = <<>> \/ Occurrences(s, sub) # {}

\* str.split(sep): leftmost, non-overlapping occurrences of sep
RECURSIVE split(_, _)
split(s, sep) ==
    IF Occurrences(s, sep) = {} THEN <<s>>
    ELSE LET i == Min(Occurrences(s, sep))
         IN  <<SubSeq(s, 1, i - 1)>> \o split(SubSeq(s, i + Len(sep), Len(s)), sep)

\* str.replace(old, new) for a one-character old
RECURSIVE replace(_, _, _)
replace(s, old, new) ==
    IF s = <<>> THEN <<>>
    ELSE (IF Head(s) = old THEN new ELSE <<Head(s)>>) \o replace(Tail(s), old, new)

\* code point of a character: the order sorted() uses
Ord(c) ==
    CASE c = " " -> 32 [] c = "&" -> 38 [] c = "(" -> 40 [] c = "-" -> 45
      [] c = "." -> 46 [] c = "/" -> 47 [] c = ">" -> 62 [] c = "I" -> 73
      [] c = "P" -> 80 [] c = "W" -> 87 [] c = "^" -> 94 [] c = "_" -> 95
      [] c = "a" -> 97 [] c = "d" -> 100 [] c = "i" -> 105 [] c = "n" -> 110
      [] c = "p" -> 112 [] c = "w" -> 119 [] OTHER -> 127

\* s < t as Python compares str
RECURSIVE StrLess(_, _)
StrLess(s, t) ==
    IF t = <<>> THEN FALSE
    ELSE IF s = <<>> THEN TRUE
    ELSE IF Head(s) = Head(t) THEN StrLess(Tail(s), Tail(t))
    ELSE Ord(Head(s)) < Ord(Head(t))

\* sorted(list(S)) for a set S of strings
RECURSIVE sorted(_)
sorted(S) ==
    IF S = {} THEN <<>>
    ELSE LET m == CHOOSE x \in S : \A y \in S \ {x} : StrLess(x, y)
         IN  <<m>> \o sorted(S \ {m})

Range(f) == {f[i] : i \in DOMAIN f}
Last(q) == q[Len(q)]

-----------------------------------------------------------------------------
(* Mode Filter: MediaCategorizer.parse_term_hierarchy, filter_terms_by_mode *)

GT == <<">">>
SEP == <<" ", ">", " ">>

parse_term_hierarchy(term_path) ==
    LET parts == split(term_path, GT)
    IN  [i \in 1..Len(parts) |-> strip(parts[i])]

\* the test both children_only and bottom_only make on a path of the list
HasChildIn(term_path, term_paths) ==
    \E other_path \in term_paths :
        other_path # term_path /\ startswith(other_path, term_path \o SEP)

bottom_term(term_path) == Last(split(term_path, SEP))

ValidModes == {"all", "children_only", "bottom_only"}

\* the list filter_terms_by_mode returns, as a set (it is built as list(set));
\* for any other mode the function calls sys.exit(1): see ModeExits
filter_terms_by_mode(term_paths, mode) ==
    CASE mode = "all" ->
            UNION {Range(parse_term_hierarchy(term_path)) : term_path \in term_paths}
      [] mode = "children_only" ->
            {bottom_term(term_path) :
                term_path \in {p \in term_paths : HasChildIn(p, term_paths)}}
      [] mode = "bottom_only" ->
            {bottom_term(term_path) :
                term_path \in {p \in term_paths : ~HasChildIn(p, term_paths)}}
      [] OTHER -> {}

\* the else branch: log_error and sys.exit(1)
ModeExits(mode) == mode \notin ValidModes

-----------------------------------------------------------------------------
(* The store: wp_terms, wp_term_taxonomy, wp_term_relationships.            *)
(* rels is a set: (object_id, term_taxonomy_id) is the table's primary key. *)
(* The engine is transactional; a statement that raises changes nothing.    *)

taxonomy_name == "media_category"

\* Python's None for a term id; real ids start at 1
None == 0

TermRow(id, name, slug) == [term_id |-> id, name |-> name, slug |-> slug]
TaxRow(ttid, id, taxonomy, parent, count) ==
    [term_taxonomy_id |-> ttid, term_id |-> id, taxonomy |-> taxonomy,
     parent |-> parent, count |-> count]

\* f with f[k] = v, as a dict assignment
Put(f, k, v) == [x \in (DOMAIN f) \cup {k} |-> IF x = k THEN v ELSE f[x]]

EmptyDict == [x \in {} |-> 0]

NewSelf ==
    [term_cache |-> EmptyDict,
     term_taxonomy_cache |-> EmptyDict,
     existing_relationships |-> {},
     created_terms |-> <<>>,
     assigned_relationships |-> EmptyDict,
     assignment_errors |-> <<>>]

\* a cache keyed by the names alone
RowKeys_NameOnly(row) == {row.name, lower(row.name)}

\* the keys cache_existing_data writes for one wp_terms row
RowKeys(row) == {row.name, row.slug, lower(row.name), lower(row.slug)}

\* cache_existing_data: rows are read in primary-key order, and a later row
\* overwrites the keys of an earlier one
cache_existing_data(me, store) ==
    [me EXCEPT
        !.term_cache =
            [k \in UNION {RowKeys(row) : row \in store.terms} |->
                Max({row.term_id : row \in {r \in store.terms : k \in RowKeys(r)}})],
        !.term_taxonomy_cache =
            [id \in {r.term_id : r \in {x \in store.tt : x.taxonomy = taxonomy_name}} |->
                Max({r.term_taxonomy_id :
                        r \in {x \in store.tt : x.taxonomy = taxonomy_name /\ x.term_id = id}})],
        !.existing_relationships = store.rels]

get_term_id(term_cache, term_name) ==
    IF term_name \in DOMAIN term_cache THEN term_cache[term_name]
    ELSE IF lower(term_name) \in DOMAIN term_cache THEN term_cache[lower(term_name)]
    ELSE None

get_term_taxonomy_id(me, term_name) ==
    LET term_id == get_term_id(me.term_cache, term_name)
    IN  IF term_id = None THEN None
        ELSE IF term_id \in DOMAIN me.term_taxonomy_cache
             THEN me.term_taxonomy_cache[term_id]
             ELSE None

\* slug = term_name.lower().replace(' ', '-').replace('&', 'and')
make_slug(term_name) ==
    replace(replace(lower(term_name), " ", <<"-">>), "&", <<"a", "n", "d">>)

(* A call's state st = [self, db, log, raised, ret]: the object, the store as  *)
(* the connection sees it, the log, the exception in flight ("" for none) and  *)
(* the return value. fail_at is the ordinal of the write statement on which    *)
(* the store raises pymysql.Error (0: the store raises nothing by itself).     *)

Call(me, store, lg) == [self |-> me, db |-> store, log |-> lg, raised |-> "", ret |-> None]

StoreRaises(st, fail_at) == st.log.writes + 1 = fail_at

\* a write statement that raised: issued, without effect
Raised(st, what) ==
    [st EXCEPT !.log.writes = @ + 1, !.log.injected = @ + 1,
               !.log.store_errors = @ \cup {what}, !.raised = what]

\* create_term that files every new term under the root
create_term_RootParent(st, term_name, parent_id, dry_run, fail_at) ==
    IF dry_run
    THEN [st EXCEPT !.ret = Cardinality(DOMAIN st.self.term_cache) + 1000]
    ELSE IF StoreRaises(st, fail_at) THEN Raised(st, "wp_terms")
    ELSE
      LET slug == make_slug(term_name)
          term_id == st.db.next_term_id
          s1 == [st EXCEPT !.db.terms = @ \cup {TermRow(term_id, term_name, slug)},
                           !.db.next_term_id = @ + 1,
                           !.log.writes = @ + 1]
      IN  IF StoreRaises(s1, fail_at) THEN Raised(s1, "wp_term_taxonomy")
          ELSE
            LET term_taxonomy_id == s1.db.next_tt_id
            IN  [s1 EXCEPT
                    !.db.tt = @ \cup {TaxRow(term_taxonomy_id, term_id, taxonomy_name,
                                             None, 0)},
                    !.db.next_tt_id = @ + 1,
                    !.log.writes = @ + 1,
                    !.self.term_cache =
                        Put(Put(Put(@, term_name, term_id), slug, term_id),
                            lower(term_name), term_id),
                    !.self.term_taxonomy_cache = Put(@, term_id, term_taxonomy_id),
                    !.self.created_terms = Append(@, <<term_name, term_id>>),
                    !.ret = term_id]

\* create_term without the cache updates of lines 231-234
create_term_NoCacheUpdate(st, term_name, parent_id, dry_run, fail_at) ==
    IF dry_run
    THEN [st EXCEPT !.ret = Cardinality(DOMAIN st.self.term_cache) + 1000]
    ELSE IF StoreRaises(st, fail_at) THEN Raised(st, "wp_terms")
    ELSE
      LET slug == make_slug(term_name)
          term_id == st.db.next_term_id
          s1 == [st EXCEPT !.db.terms = @ \cup {TermRow(term_id, term_name, slug)},
                           !.db.next_term_id = @ + 1,
                           !.log.writes = @ + 1]
      IN  IF StoreRaises(s1, fail_at) THEN Raised(s1, "wp_term_taxonomy")
          ELSE
            LET term_taxonomy_id == s1.db.next_tt_id
            IN  [s1 EXCEPT
                    !.db.tt = @ \cup {TaxRow(term_taxonomy_id, term_id, taxonomy_name,
                                             parent_id, 0)},
                    !.db.next_tt_id = @ + 1,
                    !.log.writes = @ + 1,
                    !.self.created_terms = Append(@, <<term_name, term_id>>),
                    !.ret = term_id]

create_term(st, term_name, parent_id, dry_run, fail_at) ==
    IF dry_run
    THEN [st EXCEPT !.ret = Cardinality(DOMAIN st.self.term_cache) + 1000]
    ELSE IF StoreRaises(st, fail_at) THEN Raised(st, "wp_terms")
    ELSE
      LET slug == make_slug(term_name)
          term_id == st.db.next_term_id
          s1 == [st EXCEPT !.db.terms = @ \cup {TermRow(term_id, term_name, slug)},
                           !.db.next_term_id = @ + 1,
                           !.log.writes = @ + 1]
      IN  IF StoreRaises(s1, fail_at) THEN Raised(s1, "wp_term_taxonomy")
          ELSE
            LET term_taxonomy_id == s1.db.next_tt_id
            IN  [s1 EXCEPT
                    !.db.tt = @ \cup {TaxRow(term_taxonomy_id, term_id, taxonomy_name,
                                             parent_id, 0)},
                    !.db.next_tt_id = @ + 1,
                    !.log.writes = @ + 1,
                    !.self.term_cache =
                        Put(Put(Put(@, term_name, term_id), slug, term_id),
                            lower(term_name), term_id),
                    !.self.term_taxonomy_cache = Put(@, term_id, term_taxonomy_id),
                    !.self.created_terms = Append(@, <<term_name, term_id>>),
                    !.ret = term_id]

RECURSIVE EnsureParts(_, _, _, _, _)
EnsureParts(st, term_parts, parent_id, dry_run, fail_at) ==
    IF term_parts = <<>> THEN [st EXCEPT !.ret = parent_id]
    ELSE LET term_id == get_term_id(st.self.term_cache, Head(term_parts))
         IN  IF term_id # None
             THEN EnsureParts(st, Tail(term_parts), term_id, dry_run, fail_at)
             ELSE LET c == create_term(st, Head(term_parts), parent_id, dry_run, fail_at)
                  IN  IF c.raised # "" THEN c
                      ELSE EnsureParts(c, Tail(term_parts), c.ret, dry_run, fail_at)

ensure_term_hierarchy(st, term_path, dry_run, fail_at) ==
    EnsureParts(st, parse_term_hierarchy(term_path), None, dry_run, fail_at)

\* the loop over term_names of assign_terms_to_attachment: acc collects
\* new_relationships, assigned_terms and the errors appended to assignment_errors
RECURSIVE CollectNew(_, _, _, _)
CollectNew(me, attachment_id, term_names, acc) ==
    IF term_names = <<>> THEN acc
    ELSE
      LET term_name == Head(term_names)
          term_taxonomy_id == get_term_taxonomy_id(me, term_name)
          next ==
            IF term_taxonomy_id = None
            THEN [acc EXCEPT !.errors =
                        Append(@, <<attachment_id, "Term not found", term_name>>)]
            ELSE IF <<attachment_id, term_taxonomy_id>> \in me.existing_relationships
            THEN acc
            ELSE [acc EXCEPT
                    !.new_relationships = Append(@, <<attachment_id, term_taxonomy_id>>),
                    !.assigned_terms = Append(@, term_name)]
      IN  CollectNew(me, attachment_id, Tail(term_names), next)

\* the primary key of wp_term_relationships rejects the batch
DuplicateKey(store, rows) ==
    \/ \E i \in DOMAIN rows : rows[i] \in store.rels
    \/ \E i, j \in DOMAIN rows : i # j /\ rows[i] = rows[j]

\* UPDATE wp_term_taxonomy SET count = count + 1 WHERE term_taxonomy_id = id
IncrementCount(tt, id) ==
    {IF r.term_taxonomy_id = id THEN [r EXCEPT !.count = @ + 1] ELSE r : r \in tt}

\* the except clause of assign_terms_to_attachment: record the error, return
Swallow(st, attachment_id) ==
    [st EXCEPT !.raised = "",
               !.self.assignment_errors =
                    Append(@, <<attachment_id, "Database error assigning terms", st.raised>>)]

\* the count updates, one statement for each new relationship
RECURSIVE UpdateCounts(_, _, _)
UpdateCounts(st, rows, fail_at) ==
    IF rows = <<>> THEN st
    ELSE IF StoreRaises(st, fail_at) THEN Raised(st, "update_count")
    ELSE UpdateCounts([st EXCEPT !.db.tt = IncrementCount(@, Head(rows)[2]),
                                 !.log.writes = @ + 1],
                      Tail(rows), fail_at)

\* if assigned_terms: self.assigned_relationships[attachment_id] = assigned_terms
Track(st, attachment_id, assigned_terms) ==
    IF assigned_terms = <<>> THEN st
    ELSE [st EXCEPT !.self.assigned_relationships = Put(@, attachment_id, assigned_terms)]

assign_terms_to_attachment(st, attachment_id, term_names, dry_run, fail_at) ==
    IF dry_run THEN st
    ELSE
      LET c == CollectNew(st.self, attachment_id, term_names,
                          [new_relationships |-> <<>>, assigned_terms |-> <<>>,
                           errors |-> <<>>])
          s0 == [st EXCEPT !.self.assignment_errors = @ \o c.errors]
          rows == c.new_relationships
          issued == [s0 EXCEPT !.log.batch = rows, !.log.rels_at_batch = s0.db.rels]
      IN  IF rows = <<>> THEN Track(s0, attachment_id, c.assigned_terms)
          ELSE IF StoreRaises(issued, fail_at)
          THEN Swallow(Raised(issued, "wp_term_relationships"), attachment_id)
          ELSE IF DuplicateKey(issued.db, rows)
          THEN Swallow([issued EXCEPT !.log.writes = @ + 1,
                                      !.log.store_errors = @ \cup {"duplicate_key"},
                                      !.raised = "duplicate_key"], attachment_id)
          ELSE
            LET inserted == [issued EXCEPT !.db.rels = @ \cup Range(rows),
                                           !.log.writes = @ + 1]
                counted == UpdateCounts(inserted, rows, fail_at)
            IN  IF counted.raised # "" THEN Swallow(counted, attachment_id)
                ELSE Track([counted EXCEPT !.self.existing_relationships =
                                                @ \cup Range(rows)],
                           attachment_id, c.assigned_terms)

-----------------------------------------------------------------------------
(* Matcher: preprocess_media.py *)

\* os.path.basename
basename(guid) == Last(split(guid, <<"/">>))

\* re.compile raises re.error: of the patterns the model draws, those with an
\* unbalanced parenthesis
RegexInvalid(pattern) == \E i \in DOMAIN pattern : pattern[i] = "("

\* re.compile(pattern, re.IGNORECASE).search(filename) for a pattern of literal
\* characters with an optional leading ^
regex_search(pattern, filename) ==
    IF pattern # <<>> /\ Head(pattern) = "^"
    THEN startswith(lower(filename), lower(Tail(pattern)))
    ELSE contains(lower(filename), lower(pattern))

match_filename(filename, mapping) ==
    IF mapping.regex
    THEN IF RegexInvalid(mapping.match) THEN FALSE
         ELSE regex_search(mapping.match, filename)
    ELSE contains(lower(filename), lower(mapping.match))

\* matched_terms of one attachment after the loop over mappings.items()
matched_terms(filename, maps) ==
    UNION {Range(maps[k].terms) : k \in {x \in DOMAIN maps : match_filename(filename, maps[x])}}

\* process_matches without the test "if matched_terms:" of line 166
process_matches_KeepEmpty(atts, maps) ==
    [id \in {atts[i].ID : i \in DOMAIN atts} |->
        LET i == Max({j \in DOMAIN atts : atts[j].ID = id})
        IN  [filename |-> basename(atts[i].guid),
             title |-> atts[i].post_title,
             terms |-> sorted(matched_terms(basename(atts[i].guid), maps))]]

\* process_matches(attachments, mappings) of the Matcher: a dict keyed by the
\* attachment ID; a later attachment with the same ID overwrites an earlier one
process_matches(atts, maps) ==
    LET matched == {i \in DOMAIN atts : matched_terms(basename(atts[i].guid), maps) # {}}
        last(id) == Max({i \in matched : atts[i].ID = id})
    IN  [id \in {atts[i].ID : i \in matched} |->
            [filename |-> basename(atts[last(id)].guid),
             title |-> atts[last(id)].post_title,
             terms |-> sorted(matched_terms(basename(atts[last(id)].guid), maps))]]

-----------------------------------------------------------------------------
(* Inputs of the Applier *)

Objects == 1..2      \* ids of the attachments an artifact may hold
MaxPaths == 2       \* category paths of one attachment
MaxFaults == 1      \* store statements that raise pymysql.Error by themselves
MaxRuns == 2        \* invocations of the Applier on the same artifact
MaxSegments == 2    \* segments of a path given to the Mode Filter alone
MaxFilterPaths == 2 \* paths given to the Mode Filter alone
MaxAttachments == 2 \* attachments given to the Matcher

s_W == <<"W">>
s_w == <<"w">>
s_P == <<"P">>
s_W_P == <<"W", " ", ">", " ", "P">>

PathPool == {s_W, s_W_P, s_w}

Modes == ValidModes \cup {"bogus"}

MatchRecord(paths) == [filename |-> <<"a">>, title |-> <<"a">>, terms |-> sorted(paths)]

PathSets == {S \in SUBSET PathPool : S # {} /\ Cardinality(S) <= MaxPaths}

\* artifacts as the Matcher writes them: objects 1..n, each with a sorted,
\* duplicate-free, non-empty list of paths
Artifacts ==
    UNION {[1..n -> {MatchRecord(S) : S \in PathSets}] : n \in {0} \cup Objects}

EmptyStore ==
    [terms |-> {}, tt |-> {}, rels |-> {}, next_term_id |-> 1, next_tt_id |-> 1]

\* "W" is a media_category term already related to attachment 1
StoreW ==
    [terms |-> {TermRow(1, s_W, s_w)},
     tt |-> {TaxRow(1, 1, taxonomy_name, 0, 1)},
     rels |-> {<<1, 1>>},
     next_term_id |-> 2, next_tt_id |-> 2]

\* "P" exists as a term of another taxonomy only
StoreOther ==
    [terms |-> {TermRow(1, s_P, <<"p">>)},
     tt |-> {TaxRow(1, 1, "category", 0, 0)},
     rels |-> {},
     next_term_id |-> 2, next_tt_id |-> 2]

StorePool == {EmptyStore, StoreW, StoreOther}

NewLog ==
    [writes |-> 0,              \* INSERT and UPDATE statements issued in this run
     commits |-> 0,             \* commits issued in this run
     injected |-> 0,            \* statements on which the store raised by itself
     store_errors |-> {},       \* the statements that raised pymysql.Error in this run
     batch |-> <<>>,            \* rows of the last executemany
     rels_at_batch |-> {},      \* wp_term_relationships when it was issued
     backup |-> "none",         \* wp db export: none, skipped, ok, failed, missing
     writes_at_backup |-> 0,    \* writes issued when the export ended
     mode_error |-> FALSE,      \* "Invalid taxonomy mode" was raised
     writes_at_mode_error |-> 0,
     flush |-> "none",          \* wp cache flush: none, ok, failed, missing
     csv |-> FALSE]             \* the CSV report was written

NewTodo == [paths |-> {}, objs |-> <<>>]

ConfigSpace ==
    [mode : Modes, dry_run : BOOLEAN, export_only : BOOLEAN,
     backup : BOOLEAN, backup_enabled : BOOLEAN]

Init ==
    /\ pc = "start"
    /\ config \in ConfigSpace
    /\ matches \in Artifacts
    /\ durable \in StorePool
    /\ db = durable
    /\ before = durable
    /\ self = NewSelf
    /\ run_no = 1
    /\ exit_code = -1
    /\ log = NewLog
    /\ todo = NewTodo
    /\ filtered_terms = {}
    /\ attachments = <<>>
    /\ mappings = EmptyDict

-----------------------------------------------------------------------------
(* MediaCategorizer.run, one action for each step *)

Perms(S) == {q \in [1..Cardinality(S) -> S] : Range(q) = S}

\* the write statement, among the next n, on which the store raises (0: none)
FailChoices(lg, n) ==
    {0} \cup (IF lg.injected < MaxFaults THEN (lg.writes + 1)..(lg.writes + n) ELSE {})

\* run() without the dry-run return of lines 579-582
RunBranch_NoDryRunReturn(cfg) ==
    IF cfg.export_only THEN "export" ELSE "apply"

\* which of the three ways run() goes after loading
RunBranch(cfg) ==
    IF cfg.export_only THEN "export"
    ELSE IF cfg.dry_run THEN "dry_run"
    ELSE "apply"

Exit(code) == pc' = "done" /\ exit_code' = code

\* load_config, connect_database, cache_existing_data, load_matches
CacheExistingData ==
    /\ pc = "start"
    /\ self' = cache_existing_data(self, db)
    /\ pc' = "loaded"
    /\ UNCHANGED <<config, matches, db, durable, before, run_no, exit_code, log, todo,
                   filtered_terms, attachments, mappings>>

\* export_only: generate_csv_log("export"), return
ExportOnly ==
    /\ pc = "loaded"
    /\ RunBranch(config) = "export"
    /\ log' = [log EXCEPT !.csv = TRUE]
    /\ Exit(0)
    /\ UNCHANGED <<config, matches, self, db, durable, before, run_no, todo,
                   filtered_terms, attachments, mappings>>

\* dry_run: display_dry_run_summary filters the terms of each match, return
DryRunSummary ==
    /\ pc = "loaded"
    /\ RunBranch(config) = "dry_run"
    /\ IF DOMAIN matches # {} /\ ModeExits(config.mode)
       THEN /\ log' = [log EXCEPT !.mode_error = TRUE, !.writes_at_mode_error = log.writes]
            /\ Exit(1)
            /\ UNCHANGED filtered_terms
       ELSE /\ filtered_terms' =
                    IF DOMAIN matches = {} THEN filtered_terms
                    ELSE filter_terms_by_mode(Range(matches[Max(DOMAIN matches)].terms),
                                              config.mode)
            /\ Exit(0)
            /\ UNCHANGED log
    /\ UNCHANGED <<config, matches, self, db, durable, before, run_no, todo,
                   attachments, mappings>>

\* create_backup: what became of the export, given how the wp command ended
create_backup(cfg, outcome) ==
    IF ~cfg.backup_enabled THEN "skipped" ELSE outcome

\* live apply: if backup: self.create_backup()
BeginApply ==
    /\ pc = "loaded"
    /\ RunBranch(config) = "apply"
    /\ IF ~config.backup
       THEN pc' = "process" /\ UNCHANGED <<log, exit_code>>
       ELSE \E outcome \in {"ok", "failed", "missing"} :
                LET b == create_backup(config, outcome)
                IN  /\ log' = [log EXCEPT !.backup = b, !.writes_at_backup = log.writes]
                    /\ IF b \in {"failed", "missing"} THEN Exit(1)
                       ELSE pc' = "process" /\ UNCHANGED exit_code
    /\ UNCHANGED <<config, matches, self, db, durable, before, run_no, todo,
                   filtered_terms, attachments, mappings>>

\* process_matches: return at once without matches, else collect all_term_paths
ProcessMatchesBegin ==
    /\ pc = "process"
    /\ IF DOMAIN matches = {}
       THEN pc' = "commit" /\ UNCHANGED todo
       ELSE /\ todo' = [paths |-> UNION {Range(matches[id].terms) : id \in DOMAIN matches},
                        objs |-> [i \in 1..Cardinality(DOMAIN matches) |-> i]]
            /\ pc' = "ensure"
    /\ UNCHANGED <<config, matches, self, db, durable, before, run_no, exit_code, log,
                   filtered_terms, attachments, mappings>>

\* an except clause that reports the error and neither rolls back nor exits
\* non-zero
Abort_NoRollback(r) ==
    /\ self' = r.self
    /\ log' = r.log
    /\ db' = r.db
    /\ Exit(0)

\* except Exception: rollback, sys.exit(1); finally: close
Abort(r) ==
    /\ self' = r.self
    /\ log' = r.log
    /\ db' = durable
    /\ Exit(1)

\* one iteration of: for term_path in all_term_paths: ensure_term_hierarchy(term_path)
EnsureTermHierarchy ==
    /\ pc = "ensure"
    /\ \E term_path \in todo.paths :
       \E fail_at \in FailChoices(log, 2 * Len(parse_term_hierarchy(term_path))) :
         LET r == ensure_term_hierarchy(Call(self, db, log), term_path, FALSE, fail_at)
             rest == todo.paths \ {term_path}
         IN  IF r.raised # ""
             THEN Abort(r) /\ UNCHANGED todo
             ELSE /\ self' = r.self
                  /\ db' = r.db
                  /\ log' = r.log
                  /\ todo' = [todo EXCEPT !.paths = rest]
                  /\ pc' = IF rest = {} THEN "assign" ELSE "ensure"
                  /\ UNCHANGED exit_code
    /\ UNCHANGED <<config, matches, durable, before, run_no, filtered_terms,
                   attachments, mappings>>

\* one iteration of: for attachment_id, match_data in matches.items()
AssignTerms ==
    /\ pc = "assign"
    /\ LET attachment_id == Head(todo.objs)
           terms == Range(matches[attachment_id].terms)
           next_pc == IF Tail(todo.objs) = <<>> THEN "commit" ELSE "assign"
       IN  IF ModeExits(config.mode)
           THEN \* sys.exit(1) passes the except clause; finally closes the connection
                /\ log' = [log EXCEPT !.mode_error = TRUE,
                                      !.writes_at_mode_error = log.writes]
                /\ db' = durable
                /\ Exit(1)
                /\ UNCHANGED <<self, todo, filtered_terms>>
           ELSE LET filtered == filter_terms_by_mode(terms, config.mode)
                IN  /\ filtered_terms' = filtered
                    /\ todo' = [todo EXCEPT !.objs = Tail(@)]
                    /\ pc' = next_pc
                    /\ UNCHANGED exit_code
                    /\ IF filtered = {}
                       THEN UNCHANGED <<self, db, log>>
                       ELSE \E term_names \in Perms(filtered) :
                            \E fail_at \in FailChoices(log, 1 + Len(term_names)) :
                              LET r == assign_terms_to_attachment(
                                            Call(self, db, log), attachment_id,
                                            term_names, FALSE, fail_at)
                              IN  self' = r.self /\ db' = r.db /\ log' = r.log
    /\ UNCHANGED <<config, matches, durable, before, run_no, attachments, mappings>>

\* self.db_connection.commit()
Commit ==
    /\ pc = "commit"
    /\ durable' = db
    /\ log' = [log EXCEPT !.commits = @ + 1]
    /\ pc' = "flush"
    /\ UNCHANGED <<config, matches, self, db, before, run_no, exit_code, todo,
                   filtered_terms, attachments, mappings>>

\* flush_cache: a non-zero exit of wp is a warning; a missing wp raises
\* FileNotFoundError, which run() handles with rollback and sys.exit(1)
FlushCache ==
    /\ pc = "flush"
    /\ \E outcome \in {"ok", "failed", "missing"} :
        /\ log' = [log EXCEPT !.flush = outcome]
        /\ IF outcome = "missing"
           THEN db' = durable /\ Exit(1)
           ELSE pc' = "csv" /\ UNCHANGED <<db, exit_code>>
    /\ UNCHANGED <<config, matches, self, durable, before, run_no, todo,
                   filtered_terms, attachments, mappings>>

\* generate_csv_log("apply"), then the run ends
GenerateCsvLog ==
    /\ pc = "csv"
    /\ log' = [log EXCEPT !.csv = TRUE]
    /\ Exit(0)
    /\ UNCHANGED <<config, matches, self, db, durable, before, run_no, todo,
                   filtered_terms, attachments, mappings>>

\* the operator runs the Applier again on the same artifact and configuration
Rerun ==
    /\ pc = "done"
    /\ run_no < MaxRuns
    /\ RunBranch(config) = "apply"
    /\ log.commits > 0
    /\ run_no' = run_no + 1
    /\ pc' = "start"
    /\ exit_code' = -1
    /\ self' = NewSelf
    /\ db' = durable
    /\ before' = durable
    /\ log' = [NewLog EXCEPT !.injected = log.injected]
    /\ todo' = NewTodo
    /\ filtered_terms' = {}
    /\ UNCHANGED <<config, matches, durable, attachments, mappings>>

\* one invocation of the Applier
Next ==
    \/ CacheExistingData
    \/ ExportOnly
    \/ DryRunSummary
    \/ BeginApply
    \/ ProcessMatchesBegin
    \/ EnsureTermHierarchy
    \/ AssignTerms
    \/ Commit
    \/ FlushCache
    \/ GenerateCsvLog

Spec == Init /\ [][Next]_vars

\* the Applier run, and run again on the artifact and the store it left
NextRerun ==
    \/ Next
    \/ Rerun

SpecRerun == Init /\ [][NextRerun]_vars

-----------------------------------------------------------------------------
(* The Mode Filter alone, on paths of every spelling of the separator *)

Segments == {s_W, s_P}
Separators == {SEP, GT, <<" ", ">">>}

RECURSIVE PathsOf(_)
PathsOf(n) ==
    IF n = 1 THEN Segments
    ELSE PathsOf(n - 1) \cup
         {p \o sep \o seg : p \in PathsOf(n - 1), sep \in Separators, seg \in Segments}

FilterPathSets ==
    {S \in SUBSET PathsOf(MaxSegments) : S # {} /\ Cardinality(S) <= MaxFilterPaths}

IdleConfig ==
    [mode |-> "all", dry_run |-> FALSE, export_only |-> FALSE,
     backup |-> FALSE, backup_enabled |-> FALSE]

InitFilter ==
    /\ pc = "filter"
    /\ config \in {[IdleConfig EXCEPT !.mode = m] : m \in Modes}
    /\ matches \in {[id \in {1} |-> MatchRecord(S)] : S \in FilterPathSets}
    /\ durable = EmptyStore
    /\ db = durable
    /\ before = durable
    /\ self = NewSelf
    /\ run_no = 1
    /\ exit_code = -1
    /\ log = NewLog
    /\ todo = NewTodo
    /\ filtered_terms = {}
    /\ attachments = <<>>
    /\ mappings = EmptyDict

\* filtered_terms = self.filter_terms_by_mode(terms)
FilterTermsByMode ==
    /\ pc = "filter"
    /\ IF ModeExits(config.mode)
       THEN Exit(1) /\ UNCHANGED filtered_terms
       ELSE /\ filtered_terms' = filter_terms_by_mode(Range(matches[1].terms), config.mode)
            /\ pc' = "filtered"
            /\ UNCHANGED exit_code
    /\ UNCHANGED <<config, matches, self, db, durable, before, run_no, log, todo,
                   attachments, mappings>>

NextFilter == FilterTermsByMode

SpecFilter == InitFilter /\ [][NextFilter]_vars

-----------------------------------------------------------------------------
(* The Matcher alone *)

s_a == <<"a">>

GuidPool == {<<"/", "I", "w">>, <<"/", "w", "I">>, <<"a", "/", "a">>}

Rule(match, regex, terms) == [match |-> match, regex |-> regex, terms |-> terms]

RulePool ==
    {Rule(<<"i">>, FALSE, <<s_W_P, s_W>>),
     Rule(<<"^", "i">>, TRUE, <<s_P>>),
     Rule(<<"W">>, TRUE, <<s_W, s_W>>),
     Rule(<<"(", "w">>, TRUE, <<s_w>>),
     Rule(<<"a">>, FALSE, <<>>)}

RuleKeys == {"k1", "k2"}

AttachmentLists ==
    UNION {[1..n -> {[ID |-> 0, guid |-> g, post_title |-> s_a] : g \in GuidPool}]
            : n \in 0..MaxAttachments}

InitMatcher ==
    /\ pc = "match"
    /\ attachments \in {[i \in DOMAIN a |-> [a[i] EXCEPT !.ID = i]] : a \in AttachmentLists}
    /\ mappings \in [RuleKeys -> RulePool]
    /\ matches = EmptyDict
    /\ config = IdleConfig
    /\ durable = EmptyStore
    /\ db = durable
    /\ before = durable
    /\ self = NewSelf
    /\ run_no = 1
    /\ exit_code = -1
    /\ log = NewLog
    /\ todo = NewTodo
    /\ filtered_terms = {}

\* matches = process_matches(attachments, config["mappings"])
ProcessMatches ==
    /\ pc = "match"
    /\ matches' = process_matches(attachments, mappings)
    /\ pc' = "matched"
    /\ UNCHANGED <<config, self, db, durable, before, run_no, exit_code, log, todo,
                   filtered_terms, attachments, mappings>>

NextMatcher == ProcessMatches

SpecMatcher == InitMatcher /\ [][NextMatcher]_vars

-----------------------------------------------------------------------------
(* Claims *)

LiveRun == RunBranch(config) = "apply"

\* every term-taxonomy entry's count is the number of relationship rows that
\* reference it
CountsConsistent(store) ==
    \A r \in store.tt :
        r.count = Cardinality({x \in store.rels : x[2] = r.term_taxonomy_id})

BatchInsertRaised ==
    log.store_errors \cap {"wp_term_relationships", "duplicate_key"} # {}

\* C1: when the batch insert of relationships of some object raised a store
\* error in a live run, then once the run has ended the committed store is the
\* store the run started from (no relationship, no created term persists) and
\* the exit code is not 0.
C1_BatchFailureRollsBackRun ==
    (LiveRun /\ pc = "done" /\ BatchInsertRaised)
        => (durable = before /\ exit_code # 0)

\* C2: a live run that committed, run again on the same artifact and on the
\* store it left, ends with the store as the second run found it: no term, no
\* term-taxonomy entry, no relationship inserted and no count changed.
C2_SecondRunChangesNothing ==
    (run_no = 2 /\ pc = "done" /\ exit_code = 0) => durable = before

\* C3: the rows of a relationship batch are pairwise different and none of
\* them is in wp_term_relationships when the batch is issued.
C3_BatchHasNoDuplicatePair ==
    ~DuplicateKey([rels |-> log.rels_at_batch], log.batch)

\* C4: if the counts were consistent with the relationship rows before a live
\* run, they are consistent in the store the run commits.
C4_CountsConsistentAfterCommit ==
    (LiveRun /\ log.commits > 0 /\ CountsConsistent(before))
        => CountsConsistent(durable)

\* C5: a run started with --dry-run issues no insert, no update and no commit,
\* for every artifact and every mode, valid or not; the store stays as it was.
C5_DryRunPurity ==
    config.dry_run =>
        (log.writes = 0 /\ log.commits = 0 /\ db = before /\ durable = before)

\* a dry run over a non-empty artifact has printed its summary and ended
C5_Witness ==
    /\ config.dry_run /\ ~config.export_only
    /\ pc = "done" /\ exit_code = 0
    /\ DOMAIN matches # {}
    /\ filtered_terms # {}

\* the segments of a path, and "q extends p", as the spec defines them
SegmentsOf(p) == parse_term_hierarchy(p)
Extends(q, p) ==
    /\ Len(SegmentsOf(q)) > Len(SegmentsOf(p))
    /\ SubSeq(SegmentsOf(q), 1, Len(SegmentsOf(p))) = SegmentsOf(p)
ExtendedIn(p, paths) == \E q \in paths \ {p} : Extends(q, p)

FilterInput == Range(matches[1].terms)

\* C6: under bottom_only the result is the set of the last segments of the
\* paths that no other path of the set extends.
C6_BottomOnlyIsLeafSegments ==
    (pc = "filtered" /\ config.mode = "bottom_only")
        => filtered_terms =
            {Last(SegmentsOf(p)) : p \in {x \in FilterInput : ~ExtendedIn(x, FilterInput)}}

\* C7: under children_only the result is the set of the last segments of the
\* paths that some other path of the set extends (the paths bottom_only leaves
\* out); a lone single-segment path attaches nothing.
C7_ChildrenOnlyIsInnerSegments ==
    (pc = "filtered" /\ config.mode = "children_only")
        => filtered_terms =
            {Last(SegmentsOf(p)) : p \in {x \in FilterInput : ExtendedIn(x, FilterInput)}}

\* the category paths of the rules that match the filename of attachment i
UnionOfMatchingRules(i) ==
    UNION {Range(mappings[k].terms) :
            k \in {x \in DOMAIN mappings :
                    match_filename(basename(attachments[i].guid), mappings[x])}}

StrictlySorted(q) == \A i \in 1..(Len(q) - 1) : StrLess(q[i], q[i + 1])

\* C8: the Matcher's result has an entry for an attachment exactly when the
\* rules matching its filename contribute at least one path, and the entry's
\* terms are those paths, each once, in lexicographic order.
C8_MatcherResult ==
    pc = "matched" =>
        /\ DOMAIN matches \subseteq {attachments[i].ID : i \in DOMAIN attachments}
        /\ \A i \in DOMAIN attachments :
            /\ (attachments[i].ID \in DOMAIN matches) <=> (UnionOfMatchingRules(i) # {})
            /\ (attachments[i].ID \in DOMAIN matches) =>
                    /\ StrictlySorted(matches[attachments[i].ID].terms)
                    /\ Range(matches[attachments[i].ID].terms) = UnionOfMatchingRules(i)

\* one attachment is left out, another carries the paths of two rules
C8_Witness ==
    /\ pc = "matched"
    /\ \E i \in DOMAIN attachments : attachments[i].ID \notin DOMAIN matches
    /\ \E id \in DOMAIN matches : Len(matches[id].terms) >= 3

\* C9: a live run with a mode other than all, children_only, bottom_only (and
\* in which the store itself raised nothing) issues no insert or update at
\* all, and ends with a non-zero exit code, whatever the artifact.
C9_InvalidModeFatalBeforeStore ==
    (LiveRun /\ ModeExits(config.mode) /\ log.store_errors = {})
        => (log.writes = 0 /\ (pc = "done" => exit_code # 0))

\* C10: in a live run started with --backup no insert or update is issued
\* unless the export has succeeded, and a failed export ends the run with a
\* non-zero exit code and no write.
C10_BackupPrecedesModification ==
    (LiveRun /\ config.backup) =>
        /\ log.writes > 0 => (log.backup = "ok" /\ log.writes_at_backup = 0)
        /\ log.backup \in {"failed", "missing"} => (exit_code # 0 /\ log.writes = 0)

-----------------------------------------------------------------------------
(* The same properties where the code does keep them *)

\* C2 on a store that raises nothing by itself: the second run changes nothing
\* (a batch the primary key rejects is rejected again).
SecondRunChangesNothing_ReliableStore ==
    (run_no = 2 /\ pc = "done" /\ log.injected = 0) => durable = before

\* C4 when no count UPDATE raises: the committed counts stay consistent.
CountsConsistentAfterCommit_NoUpdateError ==
    (LiveRun /\ log.commits > 0 /\ CountsConsistent(before)
        /\ "update_count" \notin log.store_errors)
        => CountsConsistent(durable)

\* every ">" of every path stands between two spaces
CanonicalPaths(paths) ==
    \A p \in paths : \A i \in DOMAIN p :
        p[i] = ">" => (1 < i /\ i < Len(p) /\ p[i - 1] = " " /\ p[i + 1] = " ")

\* C6 and C7 on paths written with the separator " > " throughout
BottomOnly_CanonicalPaths ==
    CanonicalPaths(FilterInput) => C6_BottomOnlyIsLeafSegments

ChildrenOnly_CanonicalPaths ==
    CanonicalPaths(FilterInput) => C7_ChildrenOnlyIsInnerSegments

-----------------------------------------------------------------------------
(* Claims on the end of a live run *)

FlushFailed == log.flush \in {"failed", "missing"}

\* C11: the commit precedes the cache flush, and when the flush command fails,
\* by a non-zero exit or by being absent, the committed terms and
\* relationships remain, the CSV report is still written and the run ends
\* with exit code 0.
C11_FlushFailureIsNotFatal ==
    (LiveRun /\ FlushFailed) =>
        /\ log.commits = 1
        /\ pc = "done" => (exit_code = 0 /\ log.csv)

\* C11 for a flush command that ran and exited non-zero
FlushFailureIsNotFatal_NonZeroExit ==
    (LiveRun /\ log.flush = "failed") =>
        /\ log.commits = 1
        /\ pc = "done" => (exit_code = 0 /\ log.csv)

\* what a commit has made durable is not undone by anything after it
CommittedStays ==
    (LiveRun /\ log.flush # "none") => durable = db

-----------------------------------------------------------------------------
(* ensure_term_hierarchy alone: one path, resolved twice by the same object *)

MaxDepth == 3       \* segments of the path

s_p == <<"p">>
s_WsP == <<"W", " ", "P">>
s_wdp == <<"w", "-", "p">>

HierarchySegments == {s_W, s_w, s_WsP, s_wdp}

RECURSIVE HierarchyPaths(_)
HierarchyPaths(n) ==
    IF n = 1 THEN HierarchySegments
    ELSE HierarchyPaths(n - 1) \cup
         {p \o SEP \o seg : p \in HierarchyPaths(n - 1), seg \in HierarchySegments}

\* "W P" is a media_category term with the slug WordPress gives it
StoreSlug ==
    [terms |-> {TermRow(1, s_WsP, s_wdp)},
     tt |-> {TaxRow(1, 1, taxonomy_name, 0, 0)},
     rels |-> {},
     next_term_id |-> 2, next_tt_id |-> 2]

\* the one term left in a store that has handed out a thousand term ids
StoreHighId ==
    [terms |-> {TermRow(1001, s_p, s_p)},
     tt |-> {TaxRow(1001, 1001, taxonomy_name, 0, 0)},
     rels |-> {},
     next_term_id |-> 1002, next_tt_id |-> 1002]

HierarchyStores == {EmptyStore, StoreW, StoreSlug, StoreHighId}

InitHierarchy ==
    /\ pc = "start"
    /\ config \in {[IdleConfig EXCEPT !.dry_run = d] : d \in BOOLEAN}
    /\ todo \in {[term_path |-> p, rets |-> <<>>, created |-> <<>>] :
                    p \in HierarchyPaths(MaxDepth)}
    /\ durable \in HierarchyStores
    /\ db = durable
    /\ before = durable
    /\ self = NewSelf
    /\ run_no = 1
    /\ exit_code = -1
    /\ log = NewLog
    /\ matches = EmptyDict
    /\ filtered_terms = {}
    /\ attachments = <<>>
    /\ mappings = EmptyDict

\* self.ensure_term_hierarchy(term_path, dry_run), as process_matches calls it;
\* todo.rets are the values returned so far, todo.created the number of
\* created_terms entries each call appended
ResolvePath ==
    /\ pc = "loaded"
    /\ Len(todo.rets) < 2
    /\ \E fail_at \in FailChoices(log, 2 * Len(parse_term_hierarchy(todo.term_path))) :
         LET r == ensure_term_hierarchy(Call(self, db, log), todo.term_path,
                                        config.dry_run, fail_at)
         IN  IF r.raised # ""
             THEN Abort(r) /\ UNCHANGED todo
             ELSE /\ self' = r.self
                  /\ db' = r.db
                  /\ log' = r.log
                  /\ todo' = [todo EXCEPT
                                !.rets = Append(@, r.ret),
                                !.created = Append(@, Len(r.self.created_terms)
                                                        - Len(self.created_terms))]
                  /\ UNCHANGED <<pc, exit_code>>
    /\ UNCHANGED <<config, matches, durable, before, run_no, filtered_terms,
                   attachments, mappings>>

NextHierarchy ==
    \/ CacheExistingData
    \/ ResolvePath

SpecHierarchy == InitHierarchy /\ [][NextHierarchy]_vars

-----------------------------------------------------------------------------
(* Claims on ensure_term_hierarchy and create_term *)

Resolved(n) == pc = "loaded" /\ Len(todo.rets) >= n
PathParts == parse_term_hierarchy(todo.term_path)

CreatedNames(me) == [i \in DOMAIN me.created_terms |-> me.created_terms[i][1]]
Distinct(q) == \A i, j \in DOMAIN q : q[i] = q[j] => i = j

\* C12: in a live run the first ensure_term_hierarchy call on a path of n
\* segments creates at most n terms, a second call on the same path creates
\* none and returns the same deepest term id, and no two terms created in the
\* run have the same name.
C12_HierarchyIdempotent ==
    ~config.dry_run =>
        /\ Distinct(CreatedNames(self))
        /\ Resolved(1) => todo.created[1] <= Len(PathParts)
        /\ Resolved(2) => (todo.created[2] = 0 /\ todo.rets[2] = todo.rets[1])

\* both calls are done, and the first created a term for each of two or more
\* segments
C12_Witness ==
    /\ ~config.dry_run
    /\ Resolved(2)
    /\ Len(PathParts) >= 2
    /\ todo.created[1] = Len(PathParts)

\* C12's last part over a whole run: the names of created_terms are distinct
CreatedNamesDistinct_WholeRun == Distinct(CreatedNames(self))

\* the object and the store as the first call finds them
StartState == Call(cache_existing_data(NewSelf, before), before, NewLog)

\* the term id the first call resolves for segment k (None before the first):
\* what the call returns for the path cut after that segment
ResolvedId(k) ==
    IF k = 0 THEN None
    ELSE EnsureParts(StartState, SubSeq(PathParts, 1, k), None, FALSE, 0).ret

\* the segment, as written or lowercased, is the row's name or slug, as
\* stored or lowercased
KeyMatches(row, segment) ==
    {segment, lower(segment)}
        \cap {row.name, row.slug, lower(row.name), lower(row.slug)} # {}

NewTermRows == db.terms \ before.terms
FirstAt(name) == Min({i \in DOMAIN PathParts : PathParts[i] = name})

\* C13: a term that ensure_term_hierarchy creates for segment k in a live run
\* gets one term-taxonomy entry, of the fixed taxonomy, with count 0 and with
\* the term id resolved for segment k-1 as parent (0 for the first segment);
\* the call returns the id of a term for the last segment.
C13_ParentLinkage ==
    (~config.dry_run /\ Resolved(1)) =>
        /\ \A row \in NewTermRows :
            LET k == FirstAt(row.name)
                entries == {x \in db.tt : x.term_id = row.term_id}
            IN  /\ Cardinality(entries) = 1
                /\ \A x \in entries :
                    /\ x.taxonomy = taxonomy_name
                    /\ x.count = 0
                    /\ x.parent = ResolvedId(k - 1)
                    /\ k = 1 => x.parent = 0
                    /\ k > 1 => \E parent \in db.terms :
                                    /\ parent.term_id = x.parent
                                    /\ KeyMatches(parent, PathParts[k - 1])
        /\ todo.rets[1] = ResolvedId(Len(PathParts))
        /\ \E last \in db.terms :
                last.term_id = todo.rets[1] /\ KeyMatches(last, Last(PathParts))

\* the call created a root term and a child under it
C13_Witness ==
    /\ ~config.dry_run
    /\ Resolved(1)
    /\ \E x, y \in db.tt \ before.tt : x.parent = 0 /\ y.parent = x.term_id

\* the call created a child under a term it found
C13_Witness_FoundParent ==
    /\ ~config.dry_run
    /\ Resolved(1)
    /\ \E x \in db.tt \ before.tt : x.parent \in {row.term_id : row \in before.terms}

-----------------------------------------------------------------------------
(* Claims on a live run, continued *)

TermCreationRaised == log.store_errors \cap {"wp_terms", "wp_term_taxonomy"} # {}

\* C14: when the store raises an error on an insert of create_term in a live
\* run, the run is over with a non-zero exit code, nothing was committed, and
\* the store, as committed and as any connection sees it, is the store the run
\* started from, however many terms were inserted before the failure.
C14_TermFailureRollsBackRun ==
    (LiveRun /\ TermCreationRaised) =>
        /\ pc = "done" /\ exit_code # 0
        /\ log.commits = 0
        /\ durable = before /\ db = before

\* the insert that raised came after a term had been inserted in full
C14_Witness ==
    /\ LiveRun /\ TermCreationRaised
    /\ pc = "done"
    /\ log.writes >= 3
    /\ self.created_terms # <<>>

-----------------------------------------------------------------------------
(* Claims on the lookup of a segment *)

\* the segment is the row's name, compared exactly or case-folded
NameMatches(row, segment) ==
    segment = row.name \/ lower(segment) = lower(row.name)

\* the first call created a term for segment k
CreatedAt(k) ==
    \E row \in NewTermRows : row.name = PathParts[k] /\ FirstAt(row.name) = k

\* the terms in the store when the first call looks segment k up
StoreAt(k) ==
    before.terms
        \cup {row \in NewTermRows : \E j \in 1..(k - 1) : PathParts[j] = row.name}

\* C15: ensure_term_hierarchy treats a segment as an existing term exactly
\* when some term in the store has that segment as its name, compared exactly
\* or case-folded; otherwise, also when the segment equals another term's
\* slug, it creates a term.
C15_LookupByNameOnly ==
    (~config.dry_run /\ Resolved(1)) =>
        \A k \in DOMAIN PathParts :
            CreatedAt(k) <=> ~\E row \in StoreAt(k) : NameMatches(row, PathParts[k])

\* C15, amended: ensure_term_hierarchy treats a segment as an existing term
\* exactly when the segment, as written or lowercased, is the name or the slug
\* (as stored or lowercased) of some term in the store; otherwise it creates a
\* term.
C15_LookupByNameOrSlug ==
    (~config.dry_run /\ Resolved(1)) =>
        \A k \in DOMAIN PathParts :
            CreatedAt(k) <=> ~\E row \in StoreAt(k) : KeyMatches(row, PathParts[k])

\* a segment that is no term's name and some term's slug was taken as
\* existing, and another segment of the same path was created
C15_Witness ==
    /\ ~config.dry_run
    /\ Resolved(1)
    /\ \E k \in DOMAIN PathParts :
        /\ ~CreatedAt(k)
        /\ ~\E row \in StoreAt(k) : NameMatches(row, PathParts[k])
        /\ \E row \in StoreAt(k) : row.slug = PathParts[k]
    /\ \E k \in DOMAIN PathParts : CreatedAt(k)

-----------------------------------------------------------------------------
(* Claims on create_term in dry-run mode *)

\* the last segment has no match, so that the value the call returns is the
\* one create_term made up for it
LastSegmentIsNew ==
    ~\E row \in before.terms : KeyMatches(row, Last(PathParts))

RealTermIds ==
    {row.term_id : row \in db.terms}
        \cup {self.term_cache[key] : key \in DOMAIN self.term_cache}

\* create_term in dry-run mode writes nothing and leaves the caches and
\* created_terms as they were
DryRunCreateTermChangesNothing ==
    (config.dry_run /\ Resolved(1)) =>
        /\ log.writes = 0
        /\ db = before
        /\ self = StartState.self

\* C16: create_term in dry-run mode writes nothing, leaves the caches and
\* created_terms unchanged, and returns an id that is the id of no term in
\* the store or the cache, whatever the store holds.
C16_SyntheticIdIsNoRealId ==
    (config.dry_run /\ Resolved(1)) =>
        /\ DryRunCreateTermChangesNothing
        /\ LastSegmentIsNew => todo.rets[1] \notin RealTermIds

-----------------------------------------------------------------------------
(* Claims on the assignments of a live run *)

CommittedCleanly ==
    LiveRun /\ log.commits = 1 /\ log.store_errors = {} /\ ~ModeExits(config.mode)

\* the committed store relates the object to an entry of the fixed taxonomy
\* for a term of that name
Assigned(object_id, term_name) ==
    \E row \in durable.terms : \E x \in durable.tt :
        /\ KeyMatches(row, term_name)
        /\ x.term_id = row.term_id
        /\ x.taxonomy = taxonomy_name
        /\ <<object_id, x.term_taxonomy_id>> \in durable.rels

\* C17: after a live run with a valid mode that commits without any store
\* error, every matched object is related, in the committed store, to an entry
\* of the fixed taxonomy for every segment name the mode filter selects for
\* it, and no 'Term not found' error was recorded, also when the name existed
\* before as a term without an entry in the fixed taxonomy.
C17_AssignmentComplete ==
    CommittedCleanly =>
        /\ \A id \in DOMAIN matches :
            \A term_name \in filter_terms_by_mode(Range(matches[id].terms), config.mode) :
                Assigned(id, term_name)
        /\ self.assignment_errors = <<>>

\* every term of the store the run starts from has an entry in the fixed
\* taxonomy
EveryTermInTaxonomy(store) ==
    \A row \in store.terms :
        \E x \in store.tt : x.term_id = row.term_id /\ x.taxonomy = taxonomy_name

\* C17 on such a store
AssignmentComplete_TaxonomyTermsOnly ==
    EveryTermInTaxonomy(before) => C17_AssignmentComplete

====
